---------------------------- MODULE Spec2Model ----------------------------
(***************************************************************************)
(* Model of src/sparse/cs_matrix.rs: the compressed-sparse-column matrix   *)
(* CsMatrix<N, R, C, CsVecStorage>, its kernels (transpose, scatter, add,  *)
(* mul), the conversions from and to a dense matrix, and Vector::axpy_cs.  *)
(*                                                                         *)
(* Rust indices are 0-based and are kept 0-based as VALUES (row indices,   *)
(* column starts, nz); a TLA+ sequence is 1-based, so the slot k of a Vec  *)
(* is element k + 1 of the sequence that models it.                        *)
(*                                                                         *)
(* A CsMatrix is the record [nrows, ncols, p, i, vals] of CsVecStorage     *)
(* (shape, p, i, vals).  A dense matrix is [nrows, ncols, data] with       *)
(* data[j + 1][i + 1] the entry (i, j) (column-major, as nalgebra's).      *)
(* The scalar type N is modelled by the integers; the values of the model  *)
(* stay far from the limits of any machine integer.                        *)
(*                                                                         *)
(* The fields of CsVecStorage are private and CsStorageMut has no method,  *)
(* so a CsMatrix is only ever built by From<Matrix>, transpose, add and    *)
(* mul.  The operands of the model are built the same way: they may have   *)
(* unsorted columns and stored zeros (outputs of add and mul), but never   *)
(* store a position twice.                                                 *)
(*                                                                         *)
(* A write through Vec / Vector indexing is bounds-checked in Rust; the    *)
(* kernels carry a `panic` flag that such a failed check sets.             *)
(***************************************************************************)
EXTENDS Integers, Sequences, FiniteSets, TLC

VARIABLES
    A,      \* left / only sparse operand (a CsMatrix), or NoMatrix
    B,      \* right sparse operand (a CsMatrix), or NoMatrix
    M,      \* dense operand: a dense matrix, or the vector y of axpy_cs
    sc,     \* the scalars <<alpha, beta>> of axpy_cs
    op,     \* the last operation run ("none" before any)
    out,    \* what that operation returned: [status, m]
    gen     \* how many kernel outputs were used again as an operand

vars == <<A, B, M, sc, op, out, gen>>

---------------------------------------------------------------------------
(* Bounds of the model.                                                    *)

\* A dense input has at most MaxCells cells (nrows * ncols <= MaxCells).
MaxCells == 3

\* At most MaxGen outputs of a kernel are used again as an operand.
MaxGen == 1

\* A dense input of the conversions has at most MaxDenseCells cells.
MaxDenseCells == 4

\* An operand of transpose has at most MaxTransposeCells cells.
MaxTransposeCells == 4

\* The dense vector y of axpy_cs has at most MaxLen rows.
MaxLen == 3

\* The nonzero scalars a dense input may hold.
Vals == {-1, 1}

\* Scalars of axpy_cs.
Scalars == {-1, 0, 1, 2}

---------------------------------------------------------------------------
(* Helpers over sequences (Vec) and the uninitialized memory marker.       *)

\* A slot of set_len / new_uninitialized memory that no code has written.
Uninit == "uninit"

\* vec![v; n]
RECURSIVE Fill(_, _)
Fill(n, v) == IF n <= 0 THEN <<>> ELSE Append(Fill(n - 1, v), v)

\* Vec::resize(new_len, value): truncates, or extends with `value`.
Resize(s, n, v) ==
    IF n <= Len(s) THEN SubSeq(s, 1, n) ELSE s \o Fill(n - Len(s), v)

\* Vec::truncate(len): no effect when len >= the current length.
Truncate(s, n) == IF n >= Len(s) THEN s ELSE SubSeq(s, 1, n)

NoMatrix == [nrows |-> 0, ncols |-> 0, p |-> <<>>, i |-> <<>>, vals |-> <<>>]

NoDense == [nrows |-> 0, ncols |-> 0, data |-> <<>>]

---------------------------------------------------------------------------
(* CsVecStorage: the queries of CsStorage.                                 *)

nvalues(m) == Len(m.vals)

\* column_range(j): the half-open range [start, end) of column j's slots.
column_range(m, j) ==
    [start |-> m.p[j + 1],
     end   |-> IF j + 1 = Len(m.p) THEN nvalues(m) ELSE m.p[j + 2]]

row_index(m, k) == m.i[k + 1]

get_value(m, k) == m.vals[k + 1]

\* CsMatrix::new_uninitialized_generic(nrows, ncols, nvals)
new_uninitialized_generic(nrows, ncols, nvals) ==
    [nrows |-> nrows, ncols |-> ncols,
     p    |-> Fill(ncols, Uninit),
     i    |-> Fill(nvals, Uninit),
     vals |-> Fill(nvals, Uninit)]

---------------------------------------------------------------------------
(* cumsum(a, b): b[i] := sum of a[0..i), a[i] := b[i]; returns the total.  *)

RECURSIVE cumsum_loop(_, _, _, _)
cumsum_loop(a, b, k, sum) ==
    IF k >= Len(a) THEN [a |-> a, b |-> b, sum |-> sum]
    ELSE cumsum_loop([a EXCEPT ![k + 1] = sum],
                     [b EXCEPT ![k + 1] = sum],
                     k + 1,
                     sum + a[k + 1])

\* Mutant of cumsum: the running sum taken after the bucket, not before it.
RECURSIVE cumsum_inclusive_loop(_, _, _, _)
cumsum_inclusive_loop(a, b, k, sum) ==
    IF k >= Len(a) THEN [a |-> a, b |-> b, sum |-> sum]
    ELSE cumsum_inclusive_loop([a EXCEPT ![k + 1] = sum + a[k + 1]],
                               [b EXCEPT ![k + 1] = sum + a[k + 1]],
                               k + 1,
                               sum + a[k + 1])

cumsum_inclusive(a, b) == cumsum_inclusive_loop(a, b, 0, 0)

cumsum(a, b) == cumsum_loop(a, b, 0, 0)

---------------------------------------------------------------------------
(* CsMatrix::transpose                                                     *)

\* "Compute p.": workspace[row_id] += 1 for every stored entry (indexing a
\* Vector is checked: a row id past the end panics).
RECURSIVE transpose_count(_, _, _)
transpose_count(m, k, st) ==
    IF k >= nvalues(m) \/ st.panic THEN st
    ELSE IF row_index(m, k) >= Len(st.workspace)
         THEN [st EXCEPT !.panic = TRUE]
         ELSE transpose_count(m, k + 1,
                  [st EXCEPT !.workspace[row_index(m, k) + 1] = @ + 1])

\* Mutant of transpose_entry: the row id is stored, not the column j.
transpose_entry_row_id(m, j, vi, st) ==
    LET row_id == row_index(m, vi)
        shift  == st.workspace[row_id + 1]
    IN  IF shift >= Len(st.vals)
        THEN [st EXCEPT !.panic = TRUE]
        ELSE [st EXCEPT !.vals[shift + 1] = get_value(m, vi),
                        !.i[shift + 1] = row_id,
                        !.workspace[row_id + 1] = @ + 1]

\* The body of the inner loop of "Fill the result." for slot vi of column j.
transpose_entry(m, j, vi, st) ==
    LET row_id == row_index(m, vi)
        shift  == st.workspace[row_id + 1]
    IN  IF shift >= Len(st.vals)
        THEN [st EXCEPT !.panic = TRUE]
        ELSE [st EXCEPT !.vals[shift + 1] = get_value(m, vi),
                        !.i[shift + 1] = j,
                        !.workspace[row_id + 1] = @ + 1]

RECURSIVE transpose_column(_, _, _, _, _)
transpose_column(m, j, vi, end, st) ==
    IF vi >= end \/ st.panic THEN st
    ELSE transpose_column(m, j, vi + 1, end, transpose_entry(m, j, vi, st))

RECURSIVE transpose_fill(_, _, _)
transpose_fill(m, j, st) ==
    IF j >= m.ncols \/ st.panic THEN st
    ELSE LET r == column_range(m, j)
         IN  transpose_fill(m, j + 1,
                            transpose_column(m, j, r.start, r.end, st))

transpose(m) ==
    LET nvals == nvalues(m)
        res   == new_uninitialized_generic(m.ncols, m.nrows, nvals)
        cnt   == transpose_count(m, 0,
                     [workspace |-> Fill(m.nrows, 0), panic |-> FALSE])
        cs    == cumsum(cnt.workspace, res.p)
        st    == transpose_fill(m, 0,
                     [workspace |-> cs.a, i |-> res.i, vals |-> res.vals,
                      panic |-> cnt.panic])
    IN  IF st.panic
        THEN [status |-> "index out of bounds", m |-> NoMatrix]
        ELSE [status |-> "ok",
              m |-> [nrows |-> m.ncols, ncols |-> m.nrows,
                     p |-> cs.b, i |-> st.i, vals |-> st.vals]]

---------------------------------------------------------------------------
(* CsMatrix::scatter.  st = [timestamps, workspace, nz, i, vals, p, panic] *)
(* holds the caller's timestamps, workspace and nz and the buffers of res. *)

\* Mutant of scatter_entry: a row touched before is overwritten.
scatter_entry_overwrite(st, i, val, timestamp) ==
    IF st.timestamps[i + 1] < timestamp
    THEN IF st.nz >= Len(st.i)
         THEN [st EXCEPT !.panic = TRUE]
         ELSE [st EXCEPT !.timestamps[i + 1] = timestamp,
                         !.i[st.nz + 1] = i,
                         !.nz = st.nz + 1,
                         !.workspace[i + 1] = val]
    ELSE [st EXCEPT !.workspace[i + 1] = val]

\* Mutant of scatter_entry: the first touch does not stamp the row.
scatter_entry_no_stamp(st, i, val, timestamp) ==
    IF st.timestamps[i + 1] < timestamp
    THEN IF st.nz >= Len(st.i)
         THEN [st EXCEPT !.panic = TRUE]
         ELSE [st EXCEPT !.i[st.nz + 1] = i,
                         !.nz = st.nz + 1,
                         !.workspace[i + 1] = val]
    ELSE [st EXCEPT !.workspace[i + 1] = @ + val]

\* The body of the loop for one stored entry (row i, scaled value val).
scatter_entry(st, i, val, timestamp) ==
    IF st.timestamps[i + 1] < timestamp
    THEN IF st.nz >= Len(st.i)
         THEN [st EXCEPT !.panic = TRUE]
         ELSE [st EXCEPT !.timestamps[i + 1] = timestamp,
                         !.i[st.nz + 1] = i,
                         !.nz = st.nz + 1,
                         !.workspace[i + 1] = val]
    ELSE [st EXCEPT !.workspace[i + 1] = @ + val]

RECURSIVE scatter_loop(_, _, _, _, _, _)
scatter_loop(m, vi, end, beta, timestamp, st) ==
    IF vi >= end \/ st.panic THEN st
    ELSE scatter_loop(m, vi + 1, end, beta, timestamp,
             scatter_entry(st, row_index(m, vi), beta * get_value(m, vi),
                           timestamp))

scatter(m, j, beta, timestamp, st) ==
    LET r == column_range(m, j)
    IN  scatter_loop(m, r.start, r.end, beta, timestamp, st)

\* for p in res.data.p[j]..nz { res.data.vals[p] = workspace[res.data.i[p]] }
RECURSIVE gather(_, _)
gather(st, p) ==
    IF p >= st.nz \/ st.panic THEN st
    ELSE IF p >= Len(st.vals)
         THEN [st EXCEPT !.panic = TRUE]
         ELSE gather([st EXCEPT !.vals[p + 1] = st.workspace[st.i[p + 1] + 1]],
                     p + 1)

\* The allocations that open both mul and add.
kernel_state(nrows1, ncols2, nvals) ==
    LET res == new_uninitialized_generic(nrows1, ncols2, nvals)
    IN  [p |-> res.p, i |-> res.i, vals |-> res.vals,
         timestamps |-> Fill(nrows1, 0),
         workspace  |-> Fill(nrows1, Uninit),
         nz |-> 0, panic |-> FALSE]

\* Mutant of kernel_result: the buffers are returned without truncate(nz).
kernel_result_no_truncate(nrows1, ncols2, st) ==
    IF st.panic
    THEN [status |-> "index out of bounds", m |-> NoMatrix]
    ELSE [status |-> "ok",
          m |-> [nrows |-> nrows1, ncols |-> ncols2, p |-> st.p,
                 i |-> st.i, vals |-> st.vals]]

\* truncate(nz) of both buffers, and the matrix returned.
kernel_result(nrows1, ncols2, st) ==
    IF st.panic
    THEN [status |-> "index out of bounds", m |-> NoMatrix]
    ELSE [status |-> "ok",
          m |-> [nrows |-> nrows1, ncols |-> ncols2, p |-> st.p,
                 i |-> Truncate(st.i, st.nz),
                 vals |-> Truncate(st.vals, st.nz)]]

---------------------------------------------------------------------------
(* impl Mul<&CsMatrix> for &CsMatrix                                       *)

\* let new_size_bound = nz + nrows1.value();
new_size_bound(nz, nrows1) == nz + nrows1

\* Mutant of mul_resize: the buffers keep the length nnz(lhs) + nnz(rhs).
mul_resize_none(st, nrows1) == st

\* res.data.i.resize(new_size_bound, 0); res.data.vals.resize(.., zero)
mul_resize(st, nrows1) ==
    [st EXCEPT !.i = Resize(st.i, new_size_bound(st.nz, nrows1), 0),
               !.vals = Resize(st.vals, new_size_bound(st.nz, nrows1), 0)]

\* for vi in column_idx { nz = self.scatter(i, rhs value, .., j + 1, ..) }
RECURSIVE mul_scatter(_, _, _, _, _, _)
mul_scatter(lhs, rhs, j, vi, end, st) ==
    IF vi >= end \/ st.panic THEN st
    ELSE mul_scatter(lhs, rhs, j, vi + 1, end,
             scatter(lhs, row_index(rhs, vi), get_value(rhs, vi), j + 1, st))

RECURSIVE mul_columns(_, _, _, _)
mul_columns(lhs, rhs, j, st) ==
    IF j >= rhs.ncols \/ st.panic THEN st
    ELSE LET s1 == mul_resize([st EXCEPT !.p[j + 1] = st.nz], lhs.nrows)
             r  == column_range(rhs, j)
             s2 == mul_scatter(lhs, rhs, j, r.start, r.end, s1)
         IN  mul_columns(lhs, rhs, j + 1, gather(s2, s2.p[j + 1]))

\* Mutant of mul_compatible: only too few lhs columns are refused.
mul_compatible_at_least(lhs, rhs) == lhs.ncols >= rhs.nrows

\* assert_eq!(ncols1, nrows2, "Mismatched dimensions for matrix multiplication.")
mul_compatible(lhs, rhs) == lhs.ncols = rhs.nrows

mul(lhs, rhs) ==
    IF ~mul_compatible(lhs, rhs)
    THEN [status |-> "Mismatched dimensions for matrix multiplication.",
          m |-> NoMatrix]
    ELSE kernel_result(lhs.nrows, rhs.ncols,
             mul_columns(lhs, rhs, 0,
                 kernel_state(lhs.nrows, rhs.ncols,
                              nvalues(lhs) + nvalues(rhs))))

---------------------------------------------------------------------------
(* impl Add<&CsMatrix> for &CsMatrix                                       *)

\* Mutant of add_columns: rhs is scattered under the next epoch, j + 2.
RECURSIVE add_columns_next_epoch(_, _, _, _)
add_columns_next_epoch(lhs, rhs, j, st) ==
    IF j >= rhs.ncols \/ st.panic THEN st
    ELSE LET s0 == [st EXCEPT !.p[j + 1] = st.nz]
             s1 == scatter(lhs, j, 1, j + 1, s0)
             s2 == IF s1.panic THEN s1 ELSE scatter(rhs, j, 1, j + 2, s1)
         IN  add_columns_next_epoch(lhs, rhs, j + 1, gather(s2, s2.p[j + 1]))

RECURSIVE add_columns(_, _, _, _)
add_columns(lhs, rhs, j, st) ==
    IF j >= rhs.ncols \/ st.panic THEN st
    ELSE LET s0 == [st EXCEPT !.p[j + 1] = st.nz]
             s1 == scatter(lhs, j, 1, j + 1, s0)
             s2 == IF s1.panic THEN s1 ELSE scatter(rhs, j, 1, j + 1, s1)
         IN  add_columns(lhs, rhs, j + 1, gather(s2, s2.p[j + 1]))

\* assert_eq!((nrows1, ncols1), (nrows2, ncols2), "Mismatched dimensions for matrix sum.")
add_compatible(lhs, rhs) ==
    <<lhs.nrows, lhs.ncols>> = <<rhs.nrows, rhs.ncols>>

add(lhs, rhs) ==
    IF ~add_compatible(lhs, rhs)
    THEN [status |-> "Mismatched dimensions for matrix sum.", m |-> NoMatrix]
    ELSE kernel_result(lhs.nrows, rhs.ncols,
             add_columns(lhs, rhs, 0,
                 kernel_state(lhs.nrows, rhs.ncols,
                              nvalues(lhs) + nvalues(rhs))))

---------------------------------------------------------------------------
(* impl From<Matrix> for CsMatrix (dense to sparse)                        *)

\* Mutant of is_zero: a tolerance instead of the exact comparison.
is_zero_tolerance(e) == e * e <= 1

is_zero(e) == e = 0

\* m.iter().filter(|e| !e.is_zero()).count()
count_nonzero(d) ==
    Cardinality({ij \in (1..d.nrows) \X (1..d.ncols) :
                    ~is_zero(d.data[ij[2]][ij[1]])})

\* The body of the inner loop for entry (i, j).
from_matrix_entry(d, j, i, st) ==
    IF is_zero(d.data[j + 1][i + 1]) THEN st
    ELSE IF st.nz >= Len(st.i)
         THEN [st EXCEPT !.panic = TRUE]
         ELSE [st EXCEPT !.i[st.nz + 1] = i,
                         !.vals[st.nz + 1] = d.data[j + 1][i + 1],
                         !.nz = st.nz + 1]

RECURSIVE from_matrix_rows(_, _, _, _)
from_matrix_rows(d, j, i, st) ==
    IF i >= d.nrows \/ st.panic THEN st
    ELSE from_matrix_rows(d, j, i + 1, from_matrix_entry(d, j, i, st))

RECURSIVE from_matrix_columns(_, _, _)
from_matrix_columns(d, j, st) ==
    IF j >= d.ncols \/ st.panic THEN st
    ELSE from_matrix_columns(d, j + 1,
             from_matrix_rows(d, j, 0, [st EXCEPT !.p[j + 1] = st.nz]))

from_matrix(d) ==
    LET res == new_uninitialized_generic(d.nrows, d.ncols, count_nonzero(d))
        st  == from_matrix_columns(d, 0,
                   [p |-> res.p, i |-> res.i, vals |-> res.vals,
                    nz |-> 0, panic |-> FALSE])
    IN  IF st.panic
        THEN [status |-> "index out of bounds", m |-> NoMatrix]
        ELSE [status |-> "ok",
              m |-> [nrows |-> d.nrows, ncols |-> d.ncols,
                     p |-> st.p, i |-> st.i, vals |-> st.vals]]

---------------------------------------------------------------------------
(* impl From<CsMatrix> for MatrixMN (sparse to dense)                      *)

\* MatrixMN::zeros_generic(nrows, ncols)
zeros_generic(nrows, ncols) ==
    [nrows |-> nrows, ncols |-> ncols, data |-> Fill(ncols, Fill(nrows, 0))]

\* res[(i, j)] = v
dense_set(res, i, j, v) == [res EXCEPT !.data[j + 1][i + 1] = v]

RECURSIVE from_cs_matrix_column(_, _, _, _, _)
from_cs_matrix_column(m, j, iv, end, st) ==
    IF iv >= end \/ st.panic THEN st
    ELSE LET i == row_index(m, iv)
         IN  IF i >= m.nrows
             THEN [st EXCEPT !.panic = TRUE]
             ELSE from_cs_matrix_column(m, j, iv + 1, end,
                      [st EXCEPT !.res = dense_set(st.res, i, j,
                                                   get_value(m, iv))])

RECURSIVE from_cs_matrix_columns(_, _, _)
from_cs_matrix_columns(m, j, st) ==
    IF j >= m.ncols \/ st.panic THEN st
    ELSE LET r == column_range(m, j)
         IN  from_cs_matrix_columns(m, j + 1,
                 from_cs_matrix_column(m, j, r.start, r.end, st))

from_cs_matrix(m) ==
    LET st == from_cs_matrix_columns(m, 0,
                  [res |-> zeros_generic(m.nrows, m.ncols), panic |-> FALSE])
    IN  IF st.panic
        THEN [status |-> "index out of bounds", m |-> NoDense]
        ELSE [status |-> "ok", m |-> st.res]

---------------------------------------------------------------------------
(* Vector::axpy_cs(alpha, x, beta) on the dense vector y (a sequence).     *)

\* Mutant of axpy_set: the value is added to y's old one.
axpy_set_adds(y, k, v) == [y EXCEPT ![k + 1] = @ + v]

\* *y = alpha * x value (beta zero)
axpy_set(y, k, v) == [y EXCEPT ![k + 1] = v]

\* *y += alpha * x value (beta not zero)
axpy_add(y, k, v) == [y EXCEPT ![k + 1] = @ + v]

RECURSIVE axpy_zero_loop(_, _, _, _)
axpy_zero_loop(y, alpha, x, k) ==
    IF k >= nvalues(x) THEN y
    ELSE axpy_zero_loop(axpy_set(y, row_index(x, k), alpha * get_value(x, k)),
                        alpha, x, k + 1)

RECURSIVE axpy_scaled_loop(_, _, _, _)
axpy_scaled_loop(y, alpha, x, k) ==
    IF k >= nvalues(x) THEN y
    ELSE axpy_scaled_loop(axpy_add(y, row_index(x, k), alpha * get_value(x, k)),
                          alpha, x, k + 1)

\* *self *= beta
RECURSIVE scale(_, _)
scale(y, beta) ==
    IF Len(y) = 0 THEN <<>>
    ELSE <<y[1] * beta>> \o scale(Tail(y), beta)

axpy_cs(y, alpha, x, beta) ==
    IF is_zero(beta)
    THEN axpy_zero_loop(y, alpha, x, 0)
    ELSE axpy_scaled_loop(scale(y, beta), alpha, x, 0)

---------------------------------------------------------------------------
(* The inputs: small dense matrices.                                       *)

\* The shapes of at most n cells; a dimension may be zero.
Shapes(n) == {s \in (0..n) \X (0..n) : s[1] * s[2] <= n}

DenseOf(s, S) ==
    {[nrows |-> s[1], ncols |-> s[2], data |-> d] :
        d \in [1..s[2] -> [1..s[1] -> S]]}

\* The dense matrices of at most n cells with entries in S.
DenseUpTo(n, S) == UNION {DenseOf(s, S) : s \in Shapes(n)}

DenseInputs == DenseUpTo(MaxCells, Vals \cup {0})

NoResult == [status |-> "none", m |-> NoMatrix]

\* Values grow without bound under repeated kernels: an output is used again
\* only while its stored values are input scalars or (explicit) zeros.
WithinCap(m) == \A k \in 1..Len(m.vals) : m.vals[k] \in Vals \cup {0}

---------------------------------------------------------------------------
(* Spec: the binary kernels.  Two matrices are built from dense inputs;    *)
(* one kernel runs on them; its output may be used as the left operand of  *)
(* the next call.                                                          *)

\* The sparse matrices a caller gets from its dense inputs.
SparseInputs == {from_matrix(d).m : d \in DenseInputs}

Init ==
    \E a \in SparseInputs, b \in SparseInputs :
        /\ A = a
        /\ B = b
        /\ M = NoDense
        /\ sc = <<0, 0>>
        /\ op = "none"
        /\ out = NoResult
        /\ gen = 0

\* &A * &B
Mul ==
    /\ op = "none"
    /\ op' = "mul"
    /\ out' = mul(A, B)
    /\ UNCHANGED <<A, B, M, sc, gen>>

\* &A + &B
Add ==
    /\ op = "none"
    /\ op' = "add"
    /\ out' = add(A, B)
    /\ UNCHANGED <<A, B, M, sc, gen>>

\* The caller keeps the returned matrix as the left operand of its next call.
ReuseLeft ==
    /\ op \in {"mul", "add"}
    /\ out.status = "ok"
    /\ gen < MaxGen
    /\ WithinCap(out.m)
    /\ A' = out.m
    /\ gen' = gen + 1
    /\ op' = "none"
    /\ out' = NoResult
    /\ UNCHANGED <<B, M, sc>>

\* The caller keeps the returned matrix as the right operand of its next call.
ReuseRight ==
    /\ op \in {"mul", "add"}
    /\ out.status = "ok"
    /\ gen < MaxGen
    /\ WithinCap(out.m)
    /\ B' = out.m
    /\ gen' = gen + 1
    /\ op' = "none"
    /\ out' = NoResult
    /\ UNCHANGED <<A, M, sc>>

Next == Mul \/ Add \/ ReuseLeft \/ ReuseRight

Spec == Init /\ [][Next]_vars

---------------------------------------------------------------------------
(* Ground truth for the claims: dense arithmetic, and readings of a        *)
(* CsMatrix that do not go through the kernels.                            *)

\* The dense matrix a CsMatrix converts to.
Dense(m) == from_cs_matrix(m).m

RECURSIVE DotSum(_, _, _, _, _)
DotSum(X, Y, i, j, t) ==
    IF t = 0 THEN 0
    ELSE X.data[t][i] * Y.data[j][t] + DotSum(X, Y, i, j, t - 1)

\* dense(X) * dense(Y): entry (i, j) is the sum over t of X[i, t] * Y[t, j].
DenseMul(X, Y) ==
    [nrows |-> X.nrows, ncols |-> Y.ncols,
     data |-> [j \in 1..Y.ncols |->
                 [i \in 1..X.nrows |-> DotSum(X, Y, i, j, X.ncols)]]]

\* dense(X) + dense(Y), entry by entry.
DenseAdd(X, Y) ==
    [nrows |-> X.nrows, ncols |-> X.ncols,
     data |-> [j \in 1..X.ncols |->
                 [i \in 1..X.nrows |-> X.data[j][i] + Y.data[j][i]]]]

\* The slots (1-based) of column j (0-based) of m, in storage order.
ColSlots(m, j) ==
    LET r == column_range(m, j) IN (r.start + 1)..r.end

\* The rows stored in column j of m.
ColRows(m, j) == {m.i[k] : k \in ColSlots(m, j)}

\* The positions <<row, col>> m stores.
Pattern(m) ==
    UNION {{<<i, j>> : i \in ColRows(m, j)} : j \in 0..(m.ncols - 1)}

\* Row indices strictly ascending within every column.
SortedColumns(m) ==
    \A j \in 0..(m.ncols - 1) :
        \A k \in ColSlots(m, j) :
            (k + 1) \in ColSlots(m, j) => m.i[k] < m.i[k + 1]

\* Row indices pairwise distinct within every column.
DistinctColumns(m) ==
    \A j \in 0..(m.ncols - 1) :
        \A k1, k2 \in ColSlots(m, j) : m.i[k1] = m.i[k2] => k1 = k2

\* column_starts non-decreasing from 0, every row index below the row count.
WellFormed(m) ==
    /\ Len(m.p) = m.ncols
    /\ Len(m.i) = Len(m.vals)
    /\ m.ncols > 0 => m.p[1] = 0
    /\ \A j \in 0..(m.ncols - 1) :
          column_range(m, j).start <= column_range(m, j).end
    /\ \A k \in 1..Len(m.i) : m.i[k] \in 0..(m.nrows - 1)

Ran(o) == op = o /\ out.status = "ok"

---------------------------------------------------------------------------
(* C1 *)

\* C1: for compatible operands, the dense form of &A * &B is the dense
\* product dense(A) * dense(B).
C1_MulMatchesDense ==
    (op = "mul" /\ mul_compatible(A, B)) =>
        /\ out.status = "ok"
        /\ WellFormed(out.m)
        /\ Dense(out.m) = DenseMul(Dense(A), Dense(B))

\* Two lhs columns selected by one rhs column share a row (the accumulate
\* branch of scatter ran) and the entry they add up to is not zero.
C1_Witness ==
    /\ Ran("mul")
    /\ \E j \in 0..(B.ncols - 1) :
          \E k1, k2 \in ColSlots(B, j) :
              /\ k1 # k2
              /\ ColRows(A, B.i[k1]) \cap ColRows(A, B.i[k2]) # {}
    /\ \E k \in 1..Len(out.m.vals) : out.m.vals[k] \notin {-1, 0, 1}

---------------------------------------------------------------------------
(* C2 *)

\* C2: for operands of one shape, the dense form of &A + &B is
\* dense(A) + dense(B), entry by entry.
C2_AddMatchesDense ==
    (op = "add" /\ add_compatible(A, B)) =>
        /\ out.status = "ok"
        /\ WellFormed(out.m)
        /\ Dense(out.m) = DenseAdd(Dense(A), Dense(B))

\* A sum of two-column operands where a row of the second column is stored
\* by both operands, and the same row of the first column by one only.
C2_Witness ==
    /\ Ran("add")
    /\ A.ncols >= 2
    /\ \E i \in ColRows(A, 1) \cap ColRows(B, 1) :
          /\ i \in ColRows(A, 0)
          /\ i \notin ColRows(B, 0)
          /\ Dense(out.m).data[2][i + 1] # 0

---------------------------------------------------------------------------
(* C5 *)

\* The positions the product stores: <<i, j>> with some t such that lhs
\* stores (i, t) and rhs stores (t, j).
MulPattern(lhs, rhs) ==
    UNION {{<<i, j>> : i \in UNION {ColRows(lhs, rhs.i[k]) :
                                       k \in ColSlots(rhs, j)}} :
           j \in 0..(rhs.ncols - 1)}

\* The dense ground truth of the last kernel call.
Truth ==
    IF op = "add" THEN DenseAdd(Dense(A), Dense(B))
    ELSE DenseMul(Dense(A), Dense(B))

StoredZeros(m) == Cardinality({k \in 1..Len(m.vals) : m.vals[k] = 0})

FromDenseOperands == gen = 0

\* C5 as stated: after add or mul of matrices converted from dense ones,
\* nvalues() is the number of nonzeros of the dense ground truth, and no
\* stored value is zero.
C5_Original ==
    ((Ran("add") \/ Ran("mul")) /\ FromDenseOperands) =>
        /\ nvalues(out.m) = count_nonzero(Truth)
        /\ StoredZeros(out.m) = 0

\* C5 amended: nvalues() is the number of structurally nonzero positions
\* (stored by A or by B for the sum; reached through some inner index for
\* the product); the nonzeros of the dense ground truth are those stored
\* values that are not zero, so cancelling entries stay as stored zeros.
C5_StructuralCount ==
    ((Ran("add") \/ Ran("mul")) /\ FromDenseOperands) =>
        /\ nvalues(out.m) =
              IF op = "add" THEN Cardinality(Pattern(A) \cup Pattern(B))
              ELSE Cardinality(MulPattern(A, B))
        /\ count_nonzero(Truth) = nvalues(out.m) - StoredZeros(out.m)
        /\ count_nonzero(Truth) <= nvalues(out.m)

\* A sum in which v + (-v) cancels and is stored as a zero.
C5_Witness ==
    /\ Ran("add")
    /\ FromDenseOperands
    /\ StoredZeros(out.m) > 0
    /\ nvalues(out.m) > count_nonzero(Truth)

---------------------------------------------------------------------------
(* C6 *)

\* The rows of column j of m, in storage order.
RowSeq(m, j) ==
    LET r == column_range(m, j)
    IN  [k \in 1..(r.end - r.start) |-> m.i[r.start + k]]

\* s without the later occurrences of a value.
RECURSIVE Dedupe(_)
Dedupe(s) ==
    IF Len(s) = 0 THEN <<>>
    ELSE LET front == [k \in 1..(Len(s) - 1) |-> s[k]]
             d     == Dedupe(front)
         IN  IF \E k \in 1..(Len(s) - 1) : s[k] = s[Len(s)]
             THEN d ELSE Append(d, s[Len(s)])

\* The rows scatter visits for output column j of lhs * rhs, in order.
RECURSIVE MulVisits(_, _, _, _)
MulVisits(lhs, rhs, k, end) ==
    IF k > end THEN <<>>
    ELSE RowSeq(lhs, rhs.i[k]) \o MulVisits(lhs, rhs, k + 1, end)

FirstTouchOrder(j) ==
    IF op = "add" THEN Dedupe(RowSeq(A, j) \o RowSeq(B, j))
    ELSE LET r == column_range(B, j)
         IN  Dedupe(MulVisits(A, B, r.start + 1, r.end))

\* C6 as stated: operands with ascending columns give an output with
\* ascending columns.
C6_Original ==
    ((Ran("add") \/ Ran("mul")) /\ SortedColumns(A) /\ SortedColumns(B)) =>
        SortedColumns(out.m)

\* C6 amended: the rows of every output column are pairwise distinct and
\* stored in first-touch order: for the sum, lhs's rows of the column and
\* then rhs's rows that lhs does not store; for the product, the rows of
\* the lhs columns that rhs's column selects, in visiting order, each once.
C6_FirstTouchOrder ==
    (Ran("add") \/ Ran("mul")) =>
        /\ DistinctColumns(out.m)
        /\ \A j \in 0..(out.m.ncols - 1) :
              RowSeq(out.m, j) = FirstTouchOrder(j)

\* Sorted operands whose sum has a column that is not ascending.
C6_Witness ==
    /\ Ran("add")
    /\ SortedColumns(A) /\ SortedColumns(B)
    /\ ~SortedColumns(out.m)
    /\ DistinctColumns(out.m)

---------------------------------------------------------------------------
(* C7 *)

NoOutput(msg) == [status |-> msg, m |-> NoMatrix]

\* C7: a kernel called on incompatible operands returns no matrix but
\* fails with its mismatch message, with no output buffer made, and the
\* call leaves both operands as they were.
C7_MismatchIsFatal ==
    [][ (op = "none" /\ op' \in {"add", "mul"}) =>
            /\ A' = A /\ B' = B
            /\ (op' = "add" /\ <<A.nrows, A.ncols>> # <<B.nrows, B.ncols>>)
                  => out' = NoOutput("Mismatched dimensions for matrix sum.")
            /\ (op' = "mul" /\ A.ncols # B.nrows)
                  => out' = NoOutput(
                         "Mismatched dimensions for matrix multiplication.")
      ]_vars

\* A product of operands with A.ncols # B.nrows that ended in the failure.
C7_Witness ==
    /\ op = "mul"
    /\ A.ncols > B.nrows
    /\ out.status = "Mismatched dimensions for matrix multiplication."

---------------------------------------------------------------------------
(* C9 *)

\* C9: a product of compatible operands never writes past the end of the
\* output buffers: it runs to completion and returns a matrix.
C9_MulWritesInBounds ==
    (op = "mul" /\ mul_compatible(A, B)) =>
        /\ out.status = "ok"
        /\ nvalues(out.m) = Len(out.m.i)

\* A product that stores more entries than nnz(lhs) + nnz(rhs), the
\* length the output buffers are first given.
C9_Witness ==
    /\ Ran("mul")
    /\ nvalues(out.m) > nvalues(A) + nvalues(B)

---------------------------------------------------------------------------
(* SpecConv: a dense matrix is converted to a CsMatrix, and that CsMatrix  *)
(* back to a dense matrix.                                                 *)

DenseVals == {-1, 0, 1, 2}

InitConv ==
    /\ M \in DenseUpTo(MaxDenseCells, DenseVals)
    /\ A = NoMatrix
    /\ B = NoMatrix
    /\ sc = <<0, 0>>
    /\ op = "none"
    /\ out = NoResult
    /\ gen = 0

\* CsMatrix::from(M)
FromDense ==
    /\ op = "none"
    /\ op' = "from_matrix"
    /\ out' = from_matrix(M)
    /\ UNCHANGED <<A, B, M, sc, gen>>

\* MatrixMN::from(m), m the CsMatrix just built (moved into the call).
ToDense ==
    /\ op = "from_matrix"
    /\ out.status = "ok"
    /\ op' = "from_cs_matrix"
    /\ A' = out.m
    /\ out' = from_cs_matrix(out.m)
    /\ UNCHANGED <<B, M, sc, gen>>

NextConv == FromDense \/ ToDense

SpecConv == InitConv /\ [][NextConv]_vars

\* The <<row, col, value>> triples m stores (1-based slot k of column j).
Triples(m) ==
    UNION {{<<m.i[k], j, m.vals[k]>> : k \in ColSlots(m, j)} :
           j \in 0..(m.ncols - 1)}

\* How many slots of m hold the triple t.
TripleCount(m, t) ==
    Cardinality({k \in ColSlots(m, t[2]) : m.i[k] = t[1] /\ m.vals[k] = t[3]})

\* The entries of the dense matrix d that are not exactly zero.
NonzeroTriples(d) ==
    {<<ij[1] - 1, ij[2] - 1, d.data[ij[2]][ij[1]]>> :
        ij \in {c \in (1..d.nrows) \X (1..d.ncols) : d.data[c[2]][c[1]] # 0}}

\* C3: dense -> sparse -> dense gives back the dense matrix, and the sparse
\* matrix in between stores exactly the entries that are not zero.
C3_DenseRoundTrip ==
    /\ op = "from_matrix" =>
          /\ out.status = "ok"
          /\ WellFormed(out.m)
          /\ <<out.m.nrows, out.m.ncols>> = <<M.nrows, M.ncols>>
          /\ nvalues(out.m) = Cardinality(NonzeroTriples(M))
          /\ Triples(out.m) = NonzeroTriples(M)
    /\ op = "from_cs_matrix" =>
          /\ out.status = "ok"
          /\ out.m = M

\* A round trip of a matrix that holds zeros and nonzeros in two columns.
C3_Witness ==
    /\ Ran("from_cs_matrix")
    /\ M.ncols >= 2 /\ M.nrows >= 2
    /\ nvalues(A) >= 2
    /\ nvalues(A) < M.nrows * M.ncols
    /\ out.m = M

---------------------------------------------------------------------------
(* SpecTr: transpose, and the transpose of its output.  The operand is     *)
(* built from a dense input, or is the sum of such a matrix and of others  *)
(* (a sum stores its columns' rows in first-touch order, not ascending).   *)

ShiftVals == {0, 2}

InitTr ==
    \E da \in DenseUpTo(MaxTransposeCells, Vals \cup {0}),
       db \in DenseUpTo(MaxTransposeCells, ShiftVals) :
        /\ <<da.nrows, da.ncols>> = <<db.nrows, db.ncols>>
        /\ A = from_matrix(da).m
        /\ B = from_matrix(db).m
        /\ M = NoDense
        /\ sc = <<0, 0>>
        /\ op = "none"
        /\ out = NoResult
        /\ gen = 0

\* a = &a + &b
Accumulate ==
    /\ op = "none"
    /\ gen < MaxGen
    /\ add(A, B).status = "ok"
    /\ A' = add(A, B).m
    /\ gen' = gen + 1
    /\ UNCHANGED <<B, M, sc, op, out>>

\* a.transpose()
Transpose ==
    /\ op = "none"
    /\ op' = "transpose"
    /\ out' = transpose(A)
    /\ UNCHANGED <<A, B, M, sc, gen>>

\* a.transpose().transpose()
TransposeBack ==
    /\ op = "transpose"
    /\ out.status = "ok"
    /\ op' = "transpose2"
    /\ out' = transpose(out.m)
    /\ UNCHANGED <<A, B, M, sc, gen>>

NextTr == Accumulate \/ Transpose \/ TransposeBack

SpecTr == InitTr /\ [][NextTr]_vars

\* m1 and m2 store the same multiset of triples, m2's read as <<col, row, v>>
\* when swapped.
SameTriples(m1, m2, swapped) ==
    LET Sw(t) == IF swapped THEN <<t[2], t[1], t[3]>> ELSE t
    IN  /\ nvalues(m1) = nvalues(m2)
        /\ \A t \in Triples(m1) : TripleCount(m1, t) = TripleCount(m2, Sw(t))
        /\ \A t \in Triples(m2) : TripleCount(m2, t) = TripleCount(m1, Sw(t))

\* C4: transpose(A) has the shape (c, r) and A's entries with row and
\* column exchanged; transpose(transpose(A)) has A's shape and exactly A's
\* multiset of (row, col, value) triples.
C4_TransposeInvolution ==
    /\ op = "transpose" =>
          /\ out.status = "ok"
          /\ WellFormed(out.m)
          /\ <<out.m.nrows, out.m.ncols>> = <<A.ncols, A.nrows>>
          /\ SameTriples(out.m, A, TRUE)
    /\ op = "transpose2" =>
          /\ out.status = "ok"
          /\ WellFormed(out.m)
          /\ <<out.m.nrows, out.m.ncols>> = <<A.nrows, A.ncols>>
          /\ SameTriples(out.m, A, FALSE)

\* A twice transposed matrix of two rows and two columns whose own columns
\* are not ascending: the round trip keeps the triples, not the layout.
C4_Witness ==
    /\ Ran("transpose2")
    /\ A.nrows >= 2 /\ A.ncols >= 2
    /\ nvalues(A) >= 3
    /\ ~SortedColumns(A)
    /\ out.m # A
    /\ SameTriples(out.m, A, FALSE)

\* How many entries the input stores in row i.
RowCount(m, i) == Cardinality({k \in 1..nvalues(m) : m.i[k] = i})

RECURSIVE RowsBefore(_, _)
RowsBefore(m, i) ==
    IF i = 0 THEN 0 ELSE RowsBefore(m, i - 1) + RowCount(m, i - 1)

\* C10: the output of transpose has ascending row indices in every column
\* (strictly: no input stores a position twice), and its column i occupies
\* the slots from the number of entries in rows before i up to that number
\* plus the number of entries in row i.
C10_TransposeSortedColumns ==
    op = "transpose" =>
        /\ out.status = "ok"
        /\ \A i \in 0..(A.nrows - 1) :
              /\ column_range(out.m, i).start = RowsBefore(A, i)
              /\ column_range(out.m, i).end =
                    RowsBefore(A, i) + RowCount(A, i)
        /\ SortedColumns(out.m)

\* The transpose of an input with a column that is not ascending, whose
\* output has a column of two entries.
C10_Witness ==
    /\ Ran("transpose")
    /\ ~SortedColumns(A)
    /\ \E i \in 0..(A.nrows - 1) : RowCount(A, i) >= 2
    /\ SortedColumns(out.m)

---------------------------------------------------------------------------
(* SpecAxpy: y.axpy_cs(alpha, x, beta), x a sparse vector of y's length    *)
(* built from a dense one.  M holds y; out.m keeps y as it was before the  *)
(* call.                                                                   *)

YVals == {-1, 0, 3}

Columns(n, S) == UNION {DenseOf(<<r, 1>>, S) : r \in 1..n}

InitAxpy ==
    \E y \in Columns(MaxLen, YVals), xd \in Columns(MaxLen, Vals \cup {0}) :
        /\ y.nrows = xd.nrows
        /\ M = y
        /\ A = from_matrix(xd).m
        /\ B = NoMatrix
        /\ sc \in Scalars \X Scalars
        /\ op = "none"
        /\ out = NoResult
        /\ gen = 0

Axpy ==
    /\ op = "none"
    /\ op' = "axpy_cs"
    /\ M' = [M EXCEPT !.data[1] = axpy_cs(M.data[1], sc[1], A, sc[2])]
    /\ out' = [status |-> "ok", m |-> M]
    /\ UNCHANGED <<A, B, sc, gen>>

NextAxpy == Axpy

SpecAxpy == InitAxpy /\ [][NextAxpy]_vars

\* The slot of x that stores row k (x stores no row twice).
SlotOf(x, k) == CHOOSE s \in 1..nvalues(x) : x.i[s] = k

\* C8: with beta exactly zero, y[k] = alpha * x's value at k for every row
\* k that x stores, and y[k] keeps its value for every other row.
C8_AxpyBetaZero ==
    (op = "axpy_cs" /\ sc[2] = 0) =>
        \A k \in 0..(M.nrows - 1) :
            IF k \in ColRows(A, 0)
            THEN M.data[1][k + 1] = sc[1] * A.vals[SlotOf(A, k)]
            ELSE M.data[1][k + 1] = out.m.data[1][k + 1]

\* beta = 0, a row x stores whose old value was not zero, and a row x does
\* not store that keeps a value that is not zero.
C8_Witness ==
    /\ op = "axpy_cs"
    /\ sc[2] = 0
    /\ sc[1] # 0
    /\ \E k \in ColRows(A, 0) : out.m.data[1][k + 1] # 0
    /\ \E k \in 0..(M.nrows - 1) :
          /\ k \notin ColRows(A, 0)
          /\ M.data[1][k + 1] # 0
          /\ M.data[1][k + 1] = out.m.data[1][k + 1]

=============================================================================
